---- MODULE Spec2Model ----
(***************************************************************************)
(* Model of lib/NQobj.py: the Named Qobj (NQobj), a QuTiP Qobj that        *)
(* carries a two-sided list of mode names and a kind tag, with the         *)
(* name-matching addition and multiplication, named permutation, partial   *)
(* trace, tensor product, expansion and the in-place rename.               *)
(*                                                                         *)
(* A Qobj is a record [dims, data]: dims is the pair of dimension vectors  *)
(* and data is the sparse coordinate form of the matrix, the set of        *)
(* <<row, col, value>> triples of its non-zero entries (rows and columns   *)
(* are 0-based flat indices, as in the code).  Python lists are            *)
(* sequences; a Python index i reads element i+1 of the sequence.          *)
(***************************************************************************)
EXTENDS Integers, Sequences, FiniteSets, TLC

\* ------------------------------------------------------------------ bounds
\* Largest number of Named Tensors the program holds at once.
MaxObjs == 3
\* Largest number of successful in-place renames in one run.
MaxRenames == 1
\* Longest selection handed to ptrace.
MaxSel == 2
\* Largest magnitude of an entry of a tensor a call is made on.
MaxEntry == 10000

\* ------------------------------------------------------- python list helpers
NoneVal == 0    \* Python's None in a dimension pair (real dimensions are >= 1)

At(s, i) == s[i + 1]

Range(s) == {s[k] : k \in 1..Len(s)}

NoDup(s) == \A i, j \in 1..Len(s) : s[i] = s[j] => i = j

\* list.index(x): the first 0-based position of x (callers test membership first)
IndexOf(s, x) == (CHOOSE k \in 1..Len(s) : s[k] = x /\ \A j \in 1..(k - 1) : s[j] # x) - 1

\* list(dict.fromkeys(s)): drop repeats, keep the first occurrence
RECURSIVE DedupFrom(_, _)
DedupFrom(s, seen) ==
    IF s = <<>> THEN <<>>
    ELSE IF Head(s) \in seen THEN DedupFrom(Tail(s), seen)
    ELSE <<Head(s)>> \o DedupFrom(Tail(s), seen \cup {Head(s)})

Dedup(s) == DedupFrom(s, {})

\* [x for x in s if x in keep]
RECURSIVE Filter(_, _)
Filter(s, keep) ==
    IF s = <<>> THEN <<>>
    ELSE IF Head(s) \in keep THEN <<Head(s)>> \o Filter(Tail(s), keep)
    ELSE Filter(Tail(s), keep)

\* list.remove(x): drop the first occurrence of x
RECURSIVE RemoveFirst(_, _)
RemoveFirst(s, x) ==
    IF s = <<>> THEN <<>>
    ELSE IF Head(s) = x THEN Tail(s)
    ELSE <<Head(s)>> \o RemoveFirst(Tail(s), x)

RECURSIVE Prod(_)
Prod(s) == IF s = <<>> THEN 1 ELSE Head(s) * Prod(Tail(s))

RECURSIVE SumTo(_, _)
SumTo(f, n) == IF n = 0 THEN 0 ELSE f[n - 1] + SumTo(f, n - 1)

\* every ordering of a finite set, as sequences
Perms(S) == {s \in [1..Cardinality(S) -> S] : Range(s) = S}

\* ------------------------------------------------------- results of a call
Ok(v) == [ok |-> TRUE, val |-> v, err |-> "none"]
Raise(e) == [ok |-> FALSE, val |-> <<>>, err |-> e]

\* ------------------------------------------------------------ the backend
\* (QuTiP's Qobj, as far as NQobj.py relies on it.)

Shape(q) == <<Prod(q.dims[1]), Prod(q.dims[2])>>

\* Qobj.shape_dims, the number of entries of each dimension vector
shape_dims(q) == <<Len(q.dims[1]), Len(q.dims[2])>>

\* Qobj.type from the dimension vectors: a row of size 1 is a bra, a column
\* of size 1 a ket, anything else an operator (square or not).
QType(q) ==
    IF Prod(q.dims[1]) = 1 THEN "bra"
    ELSE IF Prod(q.dims[2]) = 1 THEN "ket"
    ELSE "oper"

isket(q) == QType(q) = "ket"
isbra(q) == QType(q) = "bra"
isoper(q) == QType(q) = "oper"

Entry(data, r, c) ==
    LET S == {e \in data : e[1] = r /\ e[2] = c}
    IN  IF S = {} THEN 0 ELSE (CHOOSE e \in S : TRUE)[3]

\* the sparse form of the R x C matrix whose (r, c) entry is f[r, c]
Sparse(R, C, f) ==
    {e \in {<<r, c, f[r, c]>> : r \in 0..(R - 1), c \in 0..(C - 1)} : e[3] # 0}

Transpose(data) == {<<e[2], e[1], e[3]>> : e \in data}

isherm(q) == Shape(q)[1] = Shape(q)[2] /\ Transpose(q.data) = q.data

\* qt.qeye(d) and qt.basis(d, 0)
qeye(d) == [dims |-> <<<<d>>, <<d>>>>, data |-> {<<i, i, 1>> : i \in 0..(d - 1)}]
basis(d) == [dims |-> <<<<d>>, <<1>>>>, data |-> {<<0, 0, 1>>}]

Qobj_dag(q) == [dims |-> <<q.dims[2], q.dims[1]>>, data |-> Transpose(q.data)]

Qobj_neg(q) == [dims |-> q.dims, data |-> {<<e[1], e[2], -e[3]>> : e \in q.data}]

Qobj_scale(q, c) ==
    [dims |-> q.dims, data |-> {<<e[1], e[2], c * e[3]>> : e \in {x \in q.data : c * x[3] # 0}}]

MatMul(a, b, R, K, C) ==
    Sparse(R, C, [r \in 0..(R - 1), c \in 0..(C - 1) |->
        SumTo([k \in 0..(K - 1) |-> Entry(a, r, k) * Entry(b, k, c)], K)])

\* qt.tensor of two Qobj: Kronecker product, dimension vectors concatenated
Kron(a, b) ==
    [dims |-> <<a.dims[1] \o b.dims[1], a.dims[2] \o b.dims[2]>>,
     data |-> {<<x[1] * Shape(b)[1] + y[1], x[2] * Shape(b)[2] + y[2], x[3] * y[3]>> :
                  x \in a.data, y \in b.data}]

\* several Qobj in a row: qt.tensor(*args); a single argument comes back as it is
RECURSIVE KronAll(_)
KronAll(qs) ==
    IF Len(qs) = 1 THEN [dims |-> qs[1].dims, data |-> qs[1].data]
    ELSE Kron(KronAll(SubSeq(qs, 1, Len(qs) - 1)), qs[Len(qs)])

\* Qobj + Qobj.  A 1x1 operand is broadcast as a scalar; otherwise the
\* dimension vectors must agree.
Qobj_add(a, b) ==
    LET bcast(q, dat) ==
            IF dat = 0 THEN Ok([dims |-> q.dims, data |-> q.data])
            ELSE IF isoper(q)
            THEN IF Shape(q)[1] # Shape(q)[2] THEN Raise("ValueError")
                 ELSE Ok([dims |-> q.dims,
                          data |-> Sparse(Shape(q)[1], Shape(q)[2],
                                     [r \in 0..(Shape(q)[1] - 1), c \in 0..(Shape(q)[2] - 1) |->
                                         Entry(q.data, r, c) + (IF r = c THEN dat ELSE 0)])])
            ELSE Ok([dims |-> q.dims,
                     data |-> {<<e[1], e[2], e[3] + dat>> : e \in {x \in q.data : x[3] + dat # 0}}])
    IN  IF Shape(b) = <<1, 1>> /\ Shape(a) # <<1, 1>> THEN bcast(a, Entry(b.data, 0, 0))
        ELSE IF Shape(a) = <<1, 1>> /\ Shape(b) # <<1, 1>> THEN bcast(b, Entry(a.data, 0, 0))
        ELSE IF a.dims # b.dims THEN Raise("TypeError")
        ELSE Ok([dims |-> a.dims,
                 data |-> Sparse(Shape(a)[1], Shape(a)[2],
                            [r \in 0..(Shape(a)[1] - 1), c \in 0..(Shape(a)[2] - 1) |->
                                Entry(a.data, r, c) + Entry(b.data, r, c)])])

\* the dimension vectors of a product: positions where the left row and the
\* right column dimension are both 1 are dropped (the pairing is positional
\* and stops at the shorter vector)
TidyDims(d0, d1) ==
    LET n == IF Len(d0) < Len(d1) THEN Len(d0) ELSE Len(d1)
        keep == {k \in 1..n : ~(d0[k] = 1 /\ d1[k] = 1)}
        pick(d) == [j \in 1..Cardinality(keep) |->
                       d[CHOOSE k \in keep : Cardinality({i \in keep : i < k}) = j - 1]]
    IN  IF keep = {} THEN <<<<1>>, <<1>>>> ELSE <<pick(d0), pick(d1)>>

\* Qobj * Qobj
Qobj_mul(a, b) ==
    IF a.dims[2] = b.dims[1]
    THEN LET t == TidyDims(a.dims[1], b.dims[2])
         IN  Ok([dims |-> t,
                 data |-> MatMul(a.data, b.data, Shape(a)[1], Shape(a)[2], Shape(b)[2])])
    ELSE IF Shape(a) = <<1, 1>> THEN Ok(Qobj_scale(b, Entry(a.data, 0, 0)))
    ELSE IF Shape(b) = <<1, 1>> THEN Ok(Qobj_scale(a, Entry(b.data, 0, 0)))
    ELSE Raise("TypeError")

\* Qobj ** n: operators only, and the matrix has to be square
Qobj_pow(q, n) ==
    IF ~isoper(q) THEN Raise("Exception")
    ELSE IF Shape(q)[1] # Shape(q)[2] THEN Raise("ValueError")
    ELSE LET N == Shape(q)[1]
             pw[k \in 1..n] == IF k = 1 THEN q.data ELSE MatMul(pw[k - 1], q.data, N, N, N)
         IN  Ok([dims |-> q.dims, data |-> pw[n]])

\* Qobj.proj(): |psi><psi| of a ket or a bra
Qobj_proj(q) ==
    IF isket(q)
    THEN Ok([dims |-> <<q.dims[1], q.dims[1]>>,
             data |-> MatMul(q.data, Transpose(q.data), Shape(q)[1], 1, Shape(q)[1])])
    ELSE IF isbra(q)
    THEN Ok([dims |-> <<q.dims[2], q.dims[2]>>,
             data |-> MatMul(Transpose(q.data), q.data, Shape(q)[2], 1, Shape(q)[2])])
    ELSE Raise("TypeError")

\* multi-index of a flat index (last mode fastest) and back
Unravel(i, d) == [k \in 1..Len(d) |-> (i \div Prod(SubSeq(d, k + 1, Len(d)))) % d[k]]

RECURSIVE Ravel(_, _)
Ravel(m, d) == IF m = <<>> THEN 0 ELSE Head(m) * Prod(Tail(d)) + Ravel(Tail(m), Tail(d))

\* cy_index_permute on one flat index: mode k of the result is mode order[k]
\* of the operand
IndexPermute(i, d, order) ==
    LET m == Unravel(i, d)
    IN  Ravel([k \in 1..Len(order) |-> At(m, order[k])], [k \in 1..Len(order) |-> At(d, order[k])])

PermuteDims(d, order) == [k \in 1..Len(order) |-> At(d, order[k])]

\* the Python indices 0..n-1 that are in S, ascending
RECURSIVE Ascending(_, _)
Ascending(n, S) == IF n = 0 THEN <<>> ELSE Ascending(n - 1, S) \o (IF (n - 1) \in S THEN <<n - 1>> ELSE <<>>)

\* Qobj.ptrace(sel): trace out every mode whose index is not in sel.  Only the
\* row dimension vector is read; a ket is first turned into its density matrix.
Qobj_ptrace(q, sel) ==
    LET rd == q.dims[1]
        nd == Len(rd)
        N == Shape(q)[1]
    IN  IF \E k \in 1..Len(sel) : sel[k] \notin 0..(nd - 1) THEN Raise("IndexError")
        ELSE IF ~isket(q) /\ Shape(q)[2] # N THEN Raise("ValueError")
        ELSE LET rho == IF isket(q) THEN MatMul(q.data, Transpose(q.data), N, 1, N) ELSE q.data
                 kept == Ascending(nd, Range(sel))
                 order == kept \o Ascending(nd, (0..(nd - 1)) \ Range(sel))
                 dkeep == PermuteDims(rd, kept)
                 K == Prod(dkeep)
                 T == N \div K
                 moved == {<<IndexPermute(e[1], rd, order), IndexPermute(e[2], rd, order), e[3]>> : e \in rho}
             IN  Ok([dims |-> <<dkeep, dkeep>>,
                     data |-> Sparse(K, K, [r \in 0..(K - 1), c \in 0..(K - 1) |->
                                 SumTo([t \in 0..(T - 1) |-> Entry(moved, r * T + t, c * T + t)], T)])])

\* qutip's _permute(Q, order): one order for a ket's rows, a bra's columns, or
\* both sides of an operator
Qutip_permute(q, order) ==
    LET rows == {<<IndexPermute(e[1], q.dims[1], order), e[2], e[3]>> : e \in q.data}
        cols == {<<e[1], IndexPermute(e[2], q.dims[2], order), e[3]>> : e \in q.data}
        both == {<<IndexPermute(e[1], q.dims[1], order), IndexPermute(e[2], q.dims[2], order), e[3]>> : e \in q.data}
    IN  IF isket(q) THEN [dims |-> <<PermuteDims(q.dims[1], order), q.dims[2]>>, data |-> rows]
        ELSE IF isbra(q) THEN [dims |-> <<q.dims[1], PermuteDims(q.dims[2], order)>>, data |-> cols]
        ELSE [dims |-> <<PermuteDims(q.dims[1], order), PermuteDims(q.dims[2], order)>>, data |-> both]

\* An order is [form |-> "flat", o |-> list of int] or [form |-> "pair",
\* o |-> <<row order, column order>>].
FlatOrder(o) == [form |-> "flat", o |-> o]
PairOrder(o0, o1) == [form |-> "pair", o |-> <<o0, o1>>]

_permute2(Q, order) ==
    LET equal_dims == Q.dims[1] = Q.dims[2]
        manual == [dims |-> <<PermuteDims(Q.dims[1], order.o[1]), PermuteDims(Q.dims[2], order.o[2])>>,
                   data |-> {<<IndexPermute(e[1], Q.dims[1], order.o[1]),
                               IndexPermute(e[2], Q.dims[2], order.o[2]), e[3]>> : e \in Q.data}]
    IN  IF isoper(Q)
        THEN IF equal_dims /\ order.form = "flat" THEN Ok(Qutip_permute(Q, order.o))
             ELSE IF order.form = "pair" THEN Ok(manual)
             ELSE Raise("TypeError")
        ELSE IF order.form = "flat" THEN Ok(Qutip_permute(Q, order.o))
        ELSE Ok(manual)

\* ------------------------------------------------------------ the NQobj
\* A Named Tensor value is [dims, data, names, kind]: names is the pair of
\* name lists.  The names argument of the constructor is a string, a flat
\* list, a pair of lists, or absent.
Kinds == {"oper", "state"}

StrNames(n) == [form |-> "str", n |-> n]
FlatNames(l) == [form |-> "flat", n |-> l]
PairNames(l0, l1) == [form |-> "pair", n |-> <<l0, l1>>]
NoNames == [form |-> "none", n |-> <<>>]

\* sorted(d0) == sorted(d1)
SameSorted(d0, d1) ==
    /\ Len(d0) = Len(d1)
    /\ \A v \in Range(d0) \cup Range(d1) :
          Cardinality({k \in 1..Len(d0) : d0[k] = v}) = Cardinality({k \in 1..Len(d1) : d1[k] = v})

\* The name checks without the count of names against shape_dims.
NQobj_names_nolen(q, names) ==
    IF names.form = "none" THEN Raise("AttributeError")
    ELSE IF names.form = "pair"
    THEN IF ~NoDup(names.n[1]) \/ ~NoDup(names.n[2]) THEN Raise("ValueError") ELSE Ok(names.n)
    ELSE IF names.form = "flat"
    THEN IF ~NoDup(names.n) THEN Raise("ValueError") ELSE Ok(<<names.n, names.n>>)
    ELSE Ok(<<<<names.n>>, <<names.n>>>>)

\* The name checks without the test for duplicate names.
NQobj_names_nodup(q, names) ==
    IF names.form = "none" THEN Raise("AttributeError")
    ELSE IF names.form = "pair"
    THEN IF <<Len(names.n[1]), Len(names.n[2])>> # shape_dims(q) THEN Raise("ValueError")
         ELSE Ok(names.n)
    ELSE IF names.form = "flat"
    THEN IF ~(Len(names.n) = shape_dims(q)[1] /\ Len(names.n) = shape_dims(q)[2]) THEN Raise("ValueError")
         ELSE Ok(<<names.n, names.n>>)
    ELSE IF shape_dims(q) # <<1, 1>> THEN Raise("ValueError")
    ELSE Ok(<<<<names.n>>, <<names.n>>>>)

\* NQobj.__init__ after the Qobj is built: the names are checked and put in
\* the two-list form, then the kind is taken or worked out.
NQobj_names(q, names) ==
    IF names.form = "none" THEN Raise("AttributeError")
    ELSE IF names.form = "pair"
    THEN IF ~NoDup(names.n[1]) \/ ~NoDup(names.n[2]) THEN Raise("ValueError")
         ELSE IF <<Len(names.n[1]), Len(names.n[2])>> # shape_dims(q) THEN Raise("ValueError")
         ELSE Ok(names.n)
    ELSE IF names.form = "flat"
    THEN IF ~NoDup(names.n) THEN Raise("ValueError")
         ELSE IF ~(Len(names.n) = shape_dims(q)[1] /\ Len(names.n) = shape_dims(q)[2]) THEN Raise("ValueError")
         ELSE Ok(<<names.n, names.n>>)
    ELSE IF shape_dims(q) # <<1, 1>> THEN Raise("ValueError")
    ELSE Ok(<<<<names.n>>, <<names.n>>>>)

NQobj_kind(q, nm, kind) ==
    IF kind \in Kinds THEN Ok(kind)
    ELSE IF kind = "None"
    THEN IF isoper(q)
         THEN IF Range(nm[1]) = Range(nm[2]) /\ SameSorted(q.dims[1], q.dims[2]) /\ isherm(q)
              THEN Raise("ValueError")
              ELSE Ok("oper")
         ELSE Ok("state")
    ELSE Raise("ValueError")

NQobj(q, names, kind) ==
    LET nm == NQobj_names(q, names)
    IN  IF ~nm.ok THEN nm
        ELSE LET k == NQobj_kind(q, nm.val, kind)
             IN  IF ~k.ok THEN k
                 ELSE Ok([dims |-> q.dims, data |-> q.data, names |-> nm.val, kind |-> k.val])

\* run f on the value of a call that returned, pass an exception on
Bind(r, f(_)) == IF r.ok THEN f(r.val) ELSE r

Q(x) == [dims |-> x.dims, data |-> x.data]

OwnNames(x) == PairNames(x.names[1], x.names[2])

_dim_of_name(x, name) ==
    <<IF name \in Range(x.names[1]) THEN At(x.dims[1], IndexOf(x.names[1], name)) ELSE NoneVal,
      IF name \in Range(x.names[2]) THEN At(x.dims[2], IndexOf(x.names[2], name)) ELSE NoneVal>>

NQobj_copy(x) == NQobj(Q(x), OwnNames(x), x.kind)

\* NQobj(x) with no names given: the names of x are used; kind is "None"
\* when the caller gives none
NQobj_from(x, kind) == NQobj(Q(x), OwnNames(x), kind)

NQobj_neg(x) == NQobj(Qobj_neg(x), OwnNames(x), x.kind)

\* __mul__ with a number
NQobj_mul_number(x, c) == NQobj(Qobj_scale(x, c), OwnNames(x), x.kind)

NQobj_pow(x, n) == Bind(Qobj_pow(x, n), LAMBDA q : NQobj(q, OwnNames(x), x.kind))

NQobj_dag(x) == NQobj(Qobj_dag(x), PairNames(x.names[2], x.names[1]), x.kind)

\* the data is real, so the transpose is the adjoint without the conjugation
NQobj_trans(x) == NQobj(Qobj_dag(x), PairNames(x.names[2], x.names[1]), x.kind)

NQobj_proj(x) == Bind(Qobj_proj(x), LAMBDA q : NQobj(q, OwnNames(x), "oper"))

\* the largest n in lo..hi with n * n <= v
RECURSIVE Isqrt(_, _, _)
Isqrt(v, lo, hi) ==
    IF lo = hi THEN lo
    ELSE LET mid == (lo + hi + 1) \div 2
         IN  IF mid * mid <= v THEN Isqrt(v, mid, hi) ELSE Isqrt(v, lo, mid - 1)

\* Qobj.unit(): the object divided by its norm (the 2-norm of a ket or bra, the
\* trace norm of an operator).  The integers of this model hold the quotient
\* when the norm is a whole number that divides every entry, which the norm of
\* a vector or of a non-negative diagonal matrix can be.
Norm(q) ==
    IF isoper(q) THEN SumTo([i \in 0..(Shape(q)[1] - 1) |-> Entry(q.data, i, i)], Shape(q)[1])
    ELSE LET sq == SumTo([i \in 0..(Shape(q)[1] * Shape(q)[2] - 1) |->
                           Entry(q.data, i \div Shape(q)[2], i % Shape(q)[2]) * Entry(q.data, i \div Shape(q)[2], i % Shape(q)[2])],
                         Shape(q)[1] * Shape(q)[2])
         IN  IF Isqrt(sq, 0, 46340) * Isqrt(sq, 0, 46340) = sq THEN Isqrt(sq, 0, 46340) ELSE 0

UnitExact(q) ==
    /\ isoper(q) => \A e \in q.data : e[1] = e[2] /\ e[3] > 0
    /\ Norm(q) > 0
    /\ \A e \in q.data : e[3] % Norm(q) = 0

Qobj_unit(q) == [dims |-> q.dims, data |-> {<<e[1], e[2], e[3] \div Norm(q)>> : e \in q.data}]

NQobj_unit(x) == NQobj(Qobj_unit(x), OwnNames(x), x.kind)

\* ptrace: the indices handed to the backend.  sel is a list of names.
PtraceSel(x, sel, keep) ==
    IF \E k \in 1..Len(sel) : sel[k] \notin Range(x.names[1]) THEN Raise("ValueError")
    ELSE LET idx == [k \in 1..Len(sel) |-> IndexOf(x.names[1], sel[k])]
         IN  IF keep THEN Ok(idx)
             ELSE Ok(Ascending(shape_dims(x)[1], (0..(shape_dims(x)[1] - 1)) \ Range(idx)))

\* The kept names in the order of the selection.
PtraceNames_in_sel_order(x, idx) == [k \in 1..Len(idx) |-> At(x.names[1], idx[k])]

PtraceNames(x, idx) == [k \in 1..Len(Ascending(Len(x.names[1]), Range(idx))) |->
                            At(x.names[1], Ascending(Len(x.names[1]), Range(idx))[k])]

\* The two tests that open ptrace build a ValueError and do not raise it.
NQobj_ptrace(x, sel, keep) ==
    Bind(PtraceSel(x, sel, keep), LAMBDA idx :
        Bind(Qobj_ptrace(x, idx), LAMBDA q :
            NQobj(q, PairNames(PtraceNames(x, idx), PtraceNames(x, idx)), x.kind)))

\* permute: the order by name, as a flat list or a pair of lists, to indices
PermuteOrder(x, order) ==
    LET toIdx(l, nm) == [k \in 1..Len(l) |-> IndexOf(nm, l[k])]
        pair(l0, l1) ==
            IF Range(l0) \subseteq Range(x.names[1]) /\ Range(l1) \subseteq Range(x.names[2])
            THEN Ok(PairOrder(toIdx(l0, x.names[1]), toIdx(l1, x.names[2])))
            ELSE Raise("ValueError")
    IN  IF order.form = "flat"
        THEN IF x.names[1] = x.names[2]
             THEN IF Range(order.o) \subseteq Range(x.names[1])
                  THEN Ok(FlatOrder(toIdx(order.o, x.names[1])))
                  ELSE Raise("ValueError")
             ELSE pair(order.o, order.o)
        ELSE pair(order.o[1], order.o[2])

NQobj_permute(x, order) ==
    Bind(PermuteOrder(x, order), LAMBDA oi :
        Bind(_permute2(x, oi), LAMBDA q :
            LET o2 == IF oi.form = "flat" THEN <<oi.o, oi.o>> ELSE oi.o
                names_0 == [k \in 1..Len(o2[1]) |-> At(x.names[1], o2[1][k])]
                names_1 == [k \in 1..Len(o2[2]) |-> At(x.names[2], o2[2][k])]
            IN  NQobj(q, PairNames(names_0, names_1), x.kind)))

\* tensor(*args)
tensor(args) ==
    LET names_0[k \in 0..Len(args)] == IF k = 0 THEN <<>> ELSE names_0[k - 1] \o args[k].names[1]
        names_1[k \in 0..Len(args)] == IF k = 0 THEN <<>> ELSE names_1[k - 1] \o args[k].names[2]
    IN  IF \E k \in 1..Len(args) : args[k].kind # args[1].kind THEN Raise("AttributeError")
        ELSE NQobj(KronAll(args), PairNames(names_0[Len(args)], names_1[Len(args)]), args[1].kind)

\* The overlap with the two orders exchanged.
MulOverlap_exchanged(Q_left, Q_right) ==
    LET names_Q_right_for_overlap ==
            Filter(Q_right.names[1], {n \in Range(Q_right.names[1]) : _dim_of_name(Q_right, n)[1] # 1})
        names_Q_left_for_overlap ==
            Filter(Q_left.names[2], {n \in Range(Q_left.names[2]) : _dim_of_name(Q_left, n)[2] # 1})
    IN  IF Q_right.kind = "state" /\ Q_left.kind = "oper"
        THEN Dedup(names_Q_left_for_overlap \o names_Q_right_for_overlap)
        ELSE Dedup(names_Q_right_for_overlap \o names_Q_left_for_overlap)

\* ---------------------------------------------- support of __mul__, __add__
\* The overlap of a product: the row names of the right operand and the
\* column names of the left operand whose dimension there is not 1.
MulOverlap(Q_left, Q_right) ==
    LET names_Q_right_for_overlap ==
            Filter(Q_right.names[1], {n \in Range(Q_right.names[1]) : _dim_of_name(Q_right, n)[1] # 1})
        names_Q_left_for_overlap ==
            Filter(Q_left.names[2], {n \in Range(Q_left.names[2]) : _dim_of_name(Q_left, n)[2] # 1})
    IN  IF Q_right.kind = "state" /\ Q_left.kind = "oper"
        THEN Dedup(names_Q_right_for_overlap \o names_Q_left_for_overlap)
        ELSE Dedup(names_Q_left_for_overlap \o names_Q_right_for_overlap)

\* The required names with the overlap left out of the right operand's.
_mul_find_required_names_left_only(Q_left, Q_right) ==
    LET overlap == MulOverlap(Q_left, Q_right)
    IN  << <<Dedup(overlap \o Q_left.names[1]), Dedup(overlap \o Q_left.names[2])>>,
           <<Q_right.names[1], Q_right.names[2]>> >>

_mul_find_required_names(Q_left, Q_right) ==
    LET overlap == MulOverlap(Q_left, Q_right)
    IN  << <<Dedup(overlap \o Q_left.names[1]), Dedup(overlap \o Q_left.names[2])>>,
           <<Dedup(overlap \o Q_right.names[1]), Dedup(overlap \o Q_right.names[2])>> >>

\* The required names of a sum with the right operand's column names first.
_add_find_required_names_mixed(Q_left, Q_right) ==
    <<Dedup(Q_left.names[1] \o Q_right.names[1]), Dedup(Q_right.names[2] \o Q_left.names[2])>>

_add_find_required_names(Q_left, Q_right) ==
    <<Dedup(Q_left.names[1] \o Q_right.names[1]), Dedup(Q_left.names[2] \o Q_right.names[2])>>

\* per side, the required names the operand does not have (sets)
_find_missing_names(names, required_names) ==
    <<Range(required_names[1]) \ Range(names[1]), Range(required_names[2]) \ Range(names[2])>>

\* The dict of the missing names with the pair never reversed.
_find_missing_dict_as_is(missing_names, Q_other, transpose) ==
    [name \in missing_names[1] \cup missing_names[2] |->
        LET d == _dim_of_name(Q_other, name)
        IN  <<IF name \in missing_names[1] THEN d[1] ELSE NoneVal,
              IF name \in missing_names[2] THEN d[2] ELSE NoneVal>>]

\* for each missing name the dimension pair it has in the other operand, with
\* None on a side where the name is not missing, reversed for a product
_find_missing_dict(missing_names, Q_other, transpose) ==
    [name \in missing_names[1] \cup missing_names[2] |->
        LET d == _dim_of_name(Q_other, name)
            d0 == IF name \in missing_names[1] THEN d[1] ELSE NoneVal
            d1 == IF name \in missing_names[2] THEN d[2] ELSE NoneVal
        IN  IF transpose THEN <<d1, d0>> ELSE <<d0, d1>>]

\* the filler of one missing mode
Filler(name, dims, kind) ==
    IF kind = "oper"
    THEN IF dims[1] # dims[2] THEN Raise("AssertionError")
         ELSE IF dims[1] = NoneVal THEN Raise("ValueError")
         ELSE NQobj(qeye(dims[1]), StrNames(name), "oper")
    ELSE IF dims[1] # NoneVal /\ dims[2] # NoneVal
         THEN NQobj([dims |-> <<<<dims[1]>>, <<dims[2]>>>>, data |-> {<<0, 0, 1>>}], StrNames(name), "state")
    ELSE IF dims[1] = NoneVal
         THEN IF dims[2] = NoneVal THEN Raise("ValueError")
              ELSE NQobj(Qobj_dag(basis(dims[2])), PairNames(<<>>, <<name>>), "state")
    ELSE NQobj(basis(dims[1]), StrNames(name), "state")

\* The fillers are built in the iteration order of a dict filled from a set;
\* here that is the order of the required names.  The permute that follows
\* every call makes the result the same for any order; with several bad
\* fillers the order only decides which of their exceptions is seen.
_adding_missing_modes(x, dict_missing_modes, names, kind) ==
    LET todo == Filter(Dedup(names[1] \o names[2]), DOMAIN dict_missing_modes)
        modes[k \in 0..Len(todo)] ==
            IF k = 0 THEN Ok(<<x>>)
            ELSE Bind(modes[k - 1], LAMBDA done :
                     Bind(Filler(todo[k], dict_missing_modes[todo[k]], kind), LAMBDA m :
                         Ok(Append(done, m))))
    IN  Bind(modes[Len(todo)], LAMBDA all : tensor(all))

NQobj_add(self, other) ==
    IF QType(self) # QType(other) THEN Raise("ValueError")
    ELSE IF self.kind # other.kind THEN Raise("ValueError")
    ELSE LET names == _add_find_required_names(self, other)
             missing_self == _find_missing_names(self.names, names)
             missing_other == _find_missing_names(other.names, names)
             missing_dict_self == _find_missing_dict(missing_self, other, FALSE)
             missing_dict_other == _find_missing_dict(missing_other, self, FALSE)
         IN  Bind(_adding_missing_modes(self, missing_dict_self, names, self.kind), LAMBDA s1 :
             Bind(NQobj_permute(s1, PairOrder(names[1], names[2])), LAMBDA s2 :
             Bind(_adding_missing_modes(other, missing_dict_other, names, other.kind), LAMBDA o1 :
             Bind(NQobj_permute(o1, PairOrder(names[1], names[2])), LAMBDA o2 :
             Bind(Qobj_add(s2, o2), LAMBDA Qobj_result :
                 NQobj(Qobj_result, PairNames(names[1], names[2]), s2.kind))))))

\* the names of a product: a name whose row dimension in the left operand and
\* column dimension in the right operand are both 1 is taken off both sides
RECURSIVE MulDropNames(_, _, _, _)
MulDropNames(todo, names, self, other) ==
    IF todo = <<>> THEN names
    ELSE IF _dim_of_name(self, Head(todo))[1] = 1 /\ _dim_of_name(other, Head(todo))[2] = 1
    THEN MulDropNames(Tail(todo), <<RemoveFirst(names[1], Head(todo)), RemoveFirst(names[2], Head(todo))>>, self, other)
    ELSE MulDropNames(Tail(todo), names, self, other)

MulKind(self, other) ==
    IF self.kind = "oper" /\ other.kind = "oper" THEN "oper"
    ELSE IF self.kind = "state" /\ other.kind = "state" THEN "oper"
    ELSE "state"

\* the two operands of a product as they are handed to the backend
MulOperands(self, other) ==
    LET req == _mul_find_required_names(self, other)
        names_self == req[1]
        names_other == req[2]
        missing_self == _find_missing_names(self.names, names_self)
        missing_other == _find_missing_names(other.names, names_other)
        missing_dict_self == _find_missing_dict(missing_self, other, TRUE)
        missing_dict_other == _find_missing_dict(missing_other, self, TRUE)
    IN  Bind(_adding_missing_modes(self, missing_dict_self, names_self, self.kind), LAMBDA s1 :
        Bind(NQobj_permute(s1, PairOrder(names_self[1], names_self[2])), LAMBDA s2 :
        Bind(_adding_missing_modes(other, missing_dict_other, names_other, other.kind), LAMBDA o1 :
        Bind(NQobj_permute(o1, PairOrder(names_other[1], names_other[2])), LAMBDA o2 :
            Ok(<<s2, o2>>)))))

\* __mul__ with an NQobj.  A 1x1 result is returned as a plain Qobj: the value
\* then has no names and its kind is "scalar".
NQobj_mul(self, other) ==
    LET req == _mul_find_required_names(self, other)
    IN  Bind(MulOperands(self, other), LAMBDA so :
        Bind(Qobj_mul(so[1], so[2]), LAMBDA Qobj_result :
            IF Shape(Qobj_result) = <<1, 1>>
            THEN Ok([dims |-> Qobj_result.dims, data |-> Qobj_result.data,
                     names |-> <<<<>>, <<>>>>, kind |-> "scalar"])
            ELSE LET names == MulDropNames(req[1][1], <<req[1][1], req[2][2]>>, so[1], so[2])
                 IN  NQobj(Qobj_result, PairNames(names[1], names[2]), MulKind(so[1], so[2]))))

\* expand(): o0 and o1 are the orders in which the names missing from the rows
\* and from the columns come out of their sets.  With equal name lists the
\* receiver itself is returned.
NQobj_expand(self, o0, o1) ==
    LET required_names == Dedup(self.names[1] \o self.names[2])
        todo == o0 \o o1
        step[k \in 0..Len(todo)] ==
            IF k = 0 THEN [q |-> Q(self), names |-> self.names]
            ELSE LET prev == step[k - 1]
                     dims == _dim_of_name(self, todo[k])
                 IN  IF dims[1] = NoneVal
                     THEN LET t == Kron(prev.q, basis(dims[2]))
                          IN  [q |-> [dims |-> <<t.dims[1], SubSeq(t.dims[2], 1, Len(t.dims[2]) - 1)>>, data |-> t.data],
                               names |-> <<Append(prev.names[1], todo[k]), prev.names[2]>>]
                     ELSE LET t == Kron(prev.q, Qobj_dag(basis(dims[1])))
                          IN  [q |-> [dims |-> <<SubSeq(t.dims[1], 1, Len(t.dims[1]) - 1), t.dims[2]>>, data |-> t.data],
                               names |-> <<prev.names[1], Append(prev.names[2], todo[k])>>]
        end == step[Len(todo)]
    IN  IF self.names[1] = self.names[2] THEN Ok(self)
        ELSE Bind(NQobj(end.q, PairNames(end.names[1], end.names[2]), self.kind), LAMBDA y :
                 NQobj_permute(y, FlatOrder(required_names)))

\* ------------------------------------------------------------- the state
\* heap: the name lists that exist (Python list objects), by identity.
\* objs: the Named Tensors that exist, in order of creation; nm is the pair
\*       of identities of a tensor's row and column name lists, by the call
\*       that returned it and of the tensor that call was made on (0: none).
\* last: the latest call: its name, arguments, outcome ("ok", "scalar" for a
\*       plain Qobj, or the exception), the tensor it returned (0: none) and
\*       what it handed on (aux).
\* nren: the number of renames that took effect.
VARIABLES heap, objs, last, nren

vars == <<heap, objs, last, nren>>

Names == {"A", "B", "C"}

\* the backend objects the constructor is called with
KetQ == [dims |-> <<<<2>>, <<1>>>>, data |-> {<<1, 0, 2>>}]
OperQ == [dims |-> <<<<2>>, <<2>>>>, data |-> {<<0, 0, 1>>, <<0, 1, 2>>, <<1, 0, 3>>, <<1, 1, 4>>}]
TwoQ == [dims |-> <<<<2, 2>>, <<2, 2>>>>, data |-> {<<r, c, 4 * r + c + 1>> : r \in 0..3, c \in 0..3}]
RectQ == [dims |-> <<<<2, 2>>, <<2, 1>>>>, data |-> {<<r, c, 2 * r + c + 1>> : r \in 0..3, c \in 0..1}]
ThreeQ == [dims |-> <<<<2, 2, 2>>, <<2, 2, 2>>>>, data |-> {<<0, 0, 1>>, <<1, 2, 2>>, <<5, 5, 3>>, <<6, 3, 4>>}]

\* the constructor calls made: <<backend object, names, kind>>
Calls ==
    << <<OperQ, StrNames("A"), "oper">>,
      <<OperQ, StrNames("B"), "state">>,
      <<OperQ, PairNames(<<"A">>, <<"B">>), "None">>,
      <<OperQ, PairNames(<<"A">>, <<"B">>), "state">>,
      <<qeye(2), StrNames("B"), "oper">>,
      <<qeye(2), StrNames("B"), "None">>,
      <<qeye(1), StrNames("C"), "oper">>,
      <<KetQ, StrNames("A"), "None">>,
      <<KetQ, FlatNames(<<"B">>), "oper">>,
      <<TwoQ, FlatNames(<<"A", "B">>), "oper">>,
      <<TwoQ, PairNames(<<"A", "B">>, <<"B", "A">>), "oper">>,
      <<TwoQ, FlatNames(<<"A", "A">>), "oper">>,
      <<TwoQ, StrNames("A"), "oper">>,
      <<ThreeQ, FlatNames(<<"B", "A", "C">>), "oper">>,
      <<RectQ, FlatNames(<<"A", "B">>), "oper">>,
      <<RectQ, PairNames(<<"A", "B">>, <<"B">>), "state">>,
      <<OperQ, NoNames, "oper">> >>

View(o) == [dims |-> o.dims, data |-> o.data, kind |-> o.kind,
            names |-> <<heap[o.nm[1]], heap[o.nm[2]]>>]

X(i) == View(objs[i])

Objs == 1..Len(objs)

\* A call is made while fewer than MaxObjs tensors exist and no exception has
\* been raised: an exception is not caught, it ends the run.
CanCall == Len(objs) < MaxObjs /\ last.status \in {"ok", "scalar"}

\* Calls are made on tensors whose entries are at most MaxEntry in magnitude.
Small(i) == \A e \in objs[i].data : e[3] <= MaxEntry /\ -e[3] <= MaxEntry

\* The name lists of a returned tensor: "fresh" two new lists, "one" one new
\* list on both sides, "same" the lists of tensor src, "swap" those lists
\* exchanged, "copy" a deep copy of them (which keeps a shared list shared).
NewLists(v, mode, src) ==
    IF mode = "same" \/ mode = "swap" THEN <<>>
    ELSE IF mode = "one" \/ (mode = "copy" /\ objs[src].nm[1] = objs[src].nm[2]) THEN <<v.names[1]>>
    ELSE <<v.names[1], v.names[2]>>

NewNm(v, mode, src) ==
    IF mode = "same" THEN objs[src].nm
    ELSE IF mode = "swap" THEN <<objs[src].nm[2], objs[src].nm[1]>>
    ELSE IF Len(NewLists(v, mode, src)) = 1 THEN <<Len(heap) + 1, Len(heap) + 1>>
    ELSE <<Len(heap) + 1, Len(heap) + 2>>

\* the end of a call that returns a tensor or raises
Return(op, args, r, mode, src, aux) ==
    /\ nren' = nren
    /\ IF r.ok /\ r.val.kind \in Kinds
       THEN /\ heap' = heap \o NewLists(r.val, mode, src)
            /\ objs' = Append(objs, [dims |-> r.val.dims, data |-> r.val.data, kind |-> r.val.kind,
                                     nm |-> NewNm(r.val, mode, src), by |-> op, of |-> src])
            /\ last' = [op |-> op, args |-> args, status |-> "ok", res |-> Len(objs) + 1, aux |-> aux]
       ELSE /\ UNCHANGED <<heap, objs>>
            /\ last' = [op |-> op, args |-> args, status |-> IF r.ok THEN "scalar" ELSE r.err,
                        res |-> 0, aux |-> aux]

Init ==
    /\ heap = <<>>
    /\ objs = <<>>
    /\ last = [op |-> "none", args |-> <<>>, status |-> "ok", res |-> 0, aux |-> <<>>]
    /\ nren = 0

\* NQobj(q, names=..., kind=...)
Construct(c) ==
    /\ CanCall
    /\ Return("NQobj", c, NQobj(c[1], c[2], c[3]),
              IF c[2].form = "flat" THEN "one" ELSE "fresh", 0, <<>>)

\* NQobj(x) or NQobj(x, kind=...): the names of x are taken over
ConstructFrom(i, kind) ==
    /\ CanCall
    /\ Small(i)
    /\ Return("NQobj_from", <<i, kind>>, NQobj_from(X(i), kind), "same", i, <<>>)

Copy(i) ==
    /\ CanCall
    /\ Small(i)
    /\ Return("copy", <<i>>, NQobj_copy(X(i)), "copy", i, <<>>)

Neg(i) ==
    /\ CanCall
    /\ Small(i)
    /\ Return("neg", <<i>>, NQobj_neg(X(i)), "same", i, <<>>)

MulNumber(i, c) ==
    /\ CanCall
    /\ Small(i)
    /\ Return("mul_number", <<i, c>>, NQobj_mul_number(X(i), c), "same", i, <<>>)

Pow(i, n) ==
    /\ CanCall
    /\ Small(i)
    /\ Return("pow", <<i, n>>, NQobj_pow(X(i), n), "same", i, <<>>)

Dag(i) ==
    /\ CanCall
    /\ Small(i)
    /\ Return("dag", <<i>>, NQobj_dag(X(i)), "swap", i, <<>>)

Trans(i) ==
    /\ CanCall
    /\ Small(i)
    /\ Return("trans", <<i>>, NQobj_trans(X(i)), "swap", i, <<>>)

Proj(i) ==
    /\ CanCall
    /\ Small(i)
    /\ Return("proj", <<i>>, NQobj_proj(X(i)), "same", i, <<>>)

Unit(i) ==
    /\ CanCall
    /\ Small(i)
    /\ UnitExact(X(i))
    /\ Return("unit", <<i>>, NQobj_unit(X(i)), "same", i, <<>>)

Ptrace(i, sel, keep) ==
    /\ CanCall
    /\ Small(i)
    /\ Return("ptrace", <<i, sel, keep>>, NQobj_ptrace(X(i), sel, keep), "one", i,
              PtraceSel(X(i), sel, keep))

Permute(i, order) ==
    /\ CanCall
    /\ Small(i)
    /\ Return("permute", <<i, order>>, NQobj_permute(X(i), order), "fresh", i, <<>>)

Expand(i) ==
    /\ CanCall
    /\ Small(i)
    /\ \E o0 \in Perms(Range(X(i).names[2]) \ Range(X(i).names[1])),
          o1 \in Perms(Range(X(i).names[1]) \ Range(X(i).names[2])) :
          Return("expand", <<i>>, NQobj_expand(X(i), o0, o1),
                 IF X(i).names[1] = X(i).names[2] THEN "same" ELSE "fresh", i, <<>>)

Tensor(is) ==
    /\ CanCall
    /\ \A k \in 1..Len(is) : Small(is[k])
    /\ Return("tensor", is, tensor([k \in 1..Len(is) |-> X(is[k])]), "fresh", 0, <<>>)

Add(i, j) ==
    /\ CanCall
    /\ Small(i) /\ Small(j)
    /\ Return("add", <<i, j>>, NQobj_add(X(i), X(j)), "fresh", 0, <<>>)

Mul(i, j) ==
    /\ CanCall
    /\ Small(i) /\ Small(j)
    /\ Return("mul", <<i, j>>, NQobj_mul(X(i), X(j)), "fresh", 0, MulOverlap(X(i), X(j)))

\* rename without the test that new_name is not in use
Rename_any_new_name(i, name, new_name) ==
    /\ CanCall
    /\ nren < MaxRenames
    /\ UNCHANGED objs
    /\ LET x == X(i)
           both == x.names[1] \o x.names[2]
           put(l) == [k \in 1..Len(l) |-> IF l[k] = name THEN new_name ELSE l[k]]
       IN  IF name = new_name
           THEN /\ UNCHANGED <<heap, nren>>
                /\ last' = [op |-> "rename", args |-> <<i, name, new_name>>, status |-> "ok", res |-> 0, aux |-> x.names]
           ELSE IF name \notin Range(both)
           THEN /\ UNCHANGED <<heap, nren>>
                /\ last' = [op |-> "rename", args |-> <<i, name, new_name>>, status |-> "ValueError", res |-> 0, aux |-> x.names]
           ELSE /\ heap' = [k \in 1..Len(heap) |-> IF k \in {objs[i].nm[1], objs[i].nm[2]} THEN put(heap[k]) ELSE heap[k]]
                /\ nren' = nren + 1
                /\ last' = [op |-> "rename", args |-> <<i, name, new_name>>, status |-> "ok", res |-> 0, aux |-> x.names]

\* rename(name, new_name): the one call that changes a tensor in place
Rename(i, name, new_name) ==
    /\ CanCall
    /\ nren < MaxRenames
    /\ UNCHANGED objs
    /\ LET x == X(i)
           both == x.names[1] \o x.names[2]
           put(l) == [k \in 1..Len(l) |-> IF l[k] = name THEN new_name ELSE l[k]]
       IN  IF name = new_name
           THEN /\ UNCHANGED <<heap, nren>>
                /\ last' = [op |-> "rename", args |-> <<i, name, new_name>>, status |-> "ok", res |-> 0, aux |-> x.names]
           ELSE IF new_name \in Range(both) \/ name \notin Range(both)
           THEN /\ UNCHANGED <<heap, nren>>
                /\ last' = [op |-> "rename", args |-> <<i, name, new_name>>, status |-> "ValueError", res |-> 0, aux |-> x.names]
           ELSE /\ heap' = [k \in 1..Len(heap) |-> IF k \in {objs[i].nm[1], objs[i].nm[2]} THEN put(heap[k]) ELSE heap[k]]
                /\ nren' = nren + 1
                /\ last' = [op |-> "rename", args |-> <<i, name, new_name>>, status |-> "ok", res |-> 0, aux |-> x.names]

\* the orders permute is called with: as many names as the tensor has rows, in
\* a flat list, or a reordering of each side's names, in a pair of lists
FlatOrders(x) == UNION {Perms(S) : S \in {T \in SUBSET Names : Cardinality(T) = Len(x.names[1])}}

\* the selections ptrace is called with: lists of at most MaxSel names
Selections == UNION {Perms(S) : S \in {T \in SUBSET Names : Cardinality(T) <= MaxSel}}

Next ==
    \/ \E k \in 1..Len(Calls) : Construct(Calls[k])
    \/ \E i \in Objs, kind \in Kinds \cup {"None"} : ConstructFrom(i, kind)
    \/ \E i \in Objs : Copy(i)
    \/ \E i \in Objs : Neg(i)
    \/ \E i \in Objs : MulNumber(i, 2)
    \/ \E i \in Objs : Pow(i, 2)
    \/ \E i \in Objs : Dag(i)
    \/ \E i \in Objs : Trans(i)
    \/ \E i \in Objs : Proj(i)
    \/ \E i \in Objs : Unit(i)
    \/ \E i \in Objs, sel \in Selections, keep \in BOOLEAN : Ptrace(i, sel, keep)
    \/ \E i \in Objs : \E p \in FlatOrders(X(i)) : Permute(i, FlatOrder(p))
    \/ \E i \in Objs : \E p0 \in Perms(Range(X(i).names[1])), p1 \in Perms(Range(X(i).names[2])) :
          Permute(i, PairOrder(p0, p1))
    \/ \E i \in Objs : Expand(i)
    \/ \E i \in Objs : Tensor(<<i>>)
    \/ \E i, j \in Objs : Tensor(<<i, j>>)
    \/ \E i, j \in Objs : Add(i, j)
    \/ \E i, j \in Objs : Mul(i, j)
    \/ \E i \in Objs, name \in Names, new_name \in Names : Rename(i, name, new_name)

Spec == Init /\ [][Next]_vars

\* ------------------------------------------------------------- the claims

\* C1: every Named Tensor that exists has pairwise distinct row names,
\* pairwise distinct column names, and on each side as many names as the
\* dimension vector of that side has entries.
C1_NameInvariant ==
    \A i \in Objs :
        /\ NoDup(X(i).names[1])
        /\ NoDup(X(i).names[2])
        /\ Len(X(i).names[1]) = Len(X(i).dims[1])
        /\ Len(X(i).names[2]) = Len(X(i).dims[2])

\* a product returned a tensor after a rename had taken effect on a tensor
\* that shares its name lists with another one
C1_Witness ==
    /\ last.op = "mul" /\ last.status = "ok"
    /\ nren = 1
    /\ \E i, j \in Objs : i # j /\ objs[i].nm[1] = objs[j].nm[1]

\* C2 as claimed: for every pair (old, new), rename raises when old is on
\* neither side, raises when new is already used on a side, and a rename that
\* raises leaves both name lists as they were (last.aux: the lists before).
C2_RenameRejects ==
    last.op = "rename" =>
        LET used == Range(last.aux[1]) \cup Range(last.aux[2])
        IN  /\ last.args[2] \notin used => last.status # "ok"
            /\ last.args[3] \in used => last.status # "ok"
            /\ last.status # "ok" => X(last.args[1]).names = last.aux

\* C2 as amended: the same for every pair with old # new; with old = new the
\* call returns without an error and changes nothing.
C2_RenameRejectsDistinct ==
    last.op = "rename" =>
        LET used == Range(last.aux[1]) \cup Range(last.aux[2])
        IN  /\ (last.args[2] # last.args[3] /\ last.args[2] \notin used) => last.status = "ValueError"
            /\ (last.args[2] # last.args[3] /\ last.args[3] \in used) => last.status = "ValueError"
            /\ last.status # "ok" => X(last.args[1]).names = last.aux
            /\ last.args[2] = last.args[3] => (last.status = "ok" /\ X(last.args[1]).names = last.aux)

\* both errors are seen: an absent old name, and a new name already in use
C2_Witness ==
    /\ last.op = "rename" /\ last.status = "ValueError"
    /\ last.args[2] \in Range(last.aux[1]) /\ last.args[3] \in Range(last.aux[2])
    /\ last.args[2] # last.args[3]

\* the calls that return a tensor made from one receiver without new names
Derived == {"neg", "mul_number", "pow", "dag", "trans", "proj", "unit", "expand", "copy", "NQobj_from"}

\* C3: a tensor y obtained from x by unary -, scalar *, **, dag, trans, proj,
\* unit, expand, copy or construction from x keeps its name lists when x is
\* renamed, and x keeps its own when y is renamed.
C3_OwnNameLists ==
    [][(last'.op = "rename" /\ objs' = objs)
        => \A x, y \in Objs :
              (objs[y].by \in Derived /\ objs[y].of = x /\ last'.args[1] \in {x, y})
                 => \A z \in {x, y} \ {last'.args[1]} :
                       <<heap'[objs[z].nm[1]], heap'[objs[z].nm[2]]>> = <<heap[objs[z].nm[1]], heap[objs[z].nm[2]]>>]_vars

\* C4: ptrace raises, and returns nothing, when the row and column dimension
\* vectors of the receiver differ or its row and column name lists differ.
C4_PtraceNeedsSquare ==
    (last.op = "ptrace" /\ (X(last.args[1]).dims[1] # X(last.args[1]).dims[2]
                              \/ X(last.args[1]).names[1] # X(last.args[1]).names[2]))
        => (last.status # "ok" /\ last.res = 0)

\* C5 as claimed: the overlap of left * right (last.aux) is the left operand's
\* overlap names then the right operand's when right.kind is state and
\* left.kind is oper, and the right operand's then the left operand's in
\* every other combination of kinds.
C5_OverlapLeftFirstForOperState ==
    last.op = "mul" =>
        LET l == X(last.args[1])
            r == X(last.args[2])
            fromLeft == Filter(l.names[2], {n \in Range(l.names[2]) : _dim_of_name(l, n)[2] # 1})
            fromRight == Filter(r.names[1], {n \in Range(r.names[1]) : _dim_of_name(r, n)[1] # 1})
        IN  last.aux = IF r.kind = "state" /\ l.kind = "oper"
                       THEN fromLeft \o Filter(fromRight, Range(fromRight) \ Range(fromLeft))
                       ELSE fromRight \o Filter(fromLeft, Range(fromLeft) \ Range(fromRight))

\* C5 as amended: the overlap is the right operand's overlap names then the
\* left operand's when right.kind is state and left.kind is oper, and the
\* left operand's then the right operand's in every other combination.
C5_OverlapRightFirstForOperState ==
    last.op = "mul" =>
        LET l == X(last.args[1])
            r == X(last.args[2])
            fromLeft == Filter(l.names[2], {n \in Range(l.names[2]) : _dim_of_name(l, n)[2] # 1})
            fromRight == Filter(r.names[1], {n \in Range(r.names[1]) : _dim_of_name(r, n)[1] # 1})
        IN  last.aux = IF r.kind = "state" /\ l.kind = "oper"
                       THEN fromRight \o Filter(fromLeft, Range(fromLeft) \ Range(fromRight))
                       ELSE fromLeft \o Filter(fromRight, Range(fromRight) \ Range(fromLeft))

\* an oper times a state whose overlap takes one name from each operand
C5_Witness ==
    /\ last.op = "mul"
    /\ X(last.args[1]).kind = "oper" /\ X(last.args[2]).kind = "state"
    /\ Len(last.aux) = 2
    /\ last.aux[1] \in Range(X(last.args[2]).names[1]) \ Range(X(last.args[1]).names[2])
    /\ last.aux[2] \in Range(X(last.args[1]).names[2]) \ Range(X(last.args[2]).names[1])

\* C6 as claimed: for every oper-kind X and every oper-kind identity I on one
\* name that is on neither side of X, X * I returns a tensor with the names,
\* dimension vectors and content of tensor(X, I).
C6_TimesIdentityIsTensor ==
    LET l == X(last.args[1])
        r == X(last.args[2])
    IN  (/\ last.op = "mul"
         /\ l.kind = "oper" /\ r.kind = "oper"
         /\ shape_dims(r) = <<1, 1>> /\ r.names[1] = r.names[2]
         /\ r.dims[1] = r.dims[2] /\ r.data = qeye(r.dims[1][1]).data
         /\ r.names[1][1] \notin Range(l.names[1]) \cup Range(l.names[2]))
        => /\ last.status = "ok"
           /\ LET t == tensor(<<l, r>>)
              IN  /\ t.ok
                  /\ X(last.res).names = t.val.names
                  /\ X(last.res).dims = t.val.dims
                  /\ X(last.res).data = t.val.data

\* C6 as amended: X * I is tensor(X, I) exactly when the row and column name
\* lists of X are the same list, its row and column dimension vectors are the
\* same with no entry 1, and the dimension of I is not 1; in every other case
\* X * I raises, returns a plain scalar, or returns other names.
C6_TimesIdentityIsTensorWhenSquare ==
    LET l == X(last.args[1])
        r == X(last.args[2])
    IN  (/\ last.op = "mul"
         /\ l.kind = "oper" /\ r.kind = "oper"
         /\ shape_dims(r) = <<1, 1>> /\ r.names[1] = r.names[2]
         /\ r.dims[1] = r.dims[2] /\ r.data = qeye(r.dims[1][1]).data
         /\ r.names[1][1] \notin Range(l.names[1]) \cup Range(l.names[2]))
        => LET t == tensor(<<l, r>>)
               square == /\ l.names[1] = l.names[2]
                         /\ l.dims[1] = l.dims[2]
                         /\ \A k \in 1..Len(l.dims[1]) : l.dims[1][k] # 1
                         /\ r.dims[1][1] # 1
           IN  square <=> /\ last.status = "ok"
                          /\ t.ok
                          /\ X(last.res).names = t.val.names
                          /\ X(last.res).dims = t.val.dims
                          /\ X(last.res).data = t.val.data
                          /\ X(last.res).kind = t.val.kind

\* a two-mode oper times an identity of dimension 2 on a third name
C6_Witness ==
    /\ last.op = "mul" /\ last.status = "ok"
    /\ X(last.args[1]).kind = "oper" /\ X(last.args[2]).kind = "oper"
    /\ shape_dims(X(last.args[1])) = <<2, 2>>
    /\ X(last.args[2]).dims = <<<<2>>, <<2>>>>
    /\ X(last.args[2]).data = qeye(2).data
    /\ X(last.args[2]).names[1] = X(last.args[2]).names[2]
    /\ X(last.args[2]).names[1][1] \notin Range(X(last.args[1]).names[1]) \cup Range(X(last.args[1]).names[2])
    /\ Len(X(last.res).names[1]) = 3

\* C7: when a + b returns, b + a returns too, b + a permuted to the name
\* lists of a + b has the names, dimension vectors and content of a + b, and
\* each name list of a + b is a's names followed by those of b's names that a
\* does not have on that side.
C7_AddCommutes ==
    (last.op = "add" /\ last.status = "ok") =>
        LET a == X(last.args[1])
            b == X(last.args[2])
            ab == X(last.res)
            ba == NQobj_add(b, a)
        IN  /\ \A k \in 1..2 :
                  ab.names[k] = a.names[k] \o Filter(b.names[k], Range(b.names[k]) \ Range(a.names[k]))
            /\ ba.ok
            /\ LET back == NQobj_permute(ba.val, PairOrder(ab.names[1], ab.names[2]))
               IN  /\ back.ok
                   /\ back.val.names = ab.names
                   /\ back.val.dims = ab.dims
                   /\ back.val.data = ab.data

\* a sum of two tensors on different names, whose content is not symmetric
\* under the exchange of the two modes
C7_Witness ==
    /\ last.op = "add" /\ last.status = "ok"
    /\ X(last.args[1]).names[1] # X(last.args[2]).names[1]
    /\ Len(X(last.res).names[1]) = 2
    /\ NQobj_add(X(last.args[2]), X(last.args[1])).ok
    /\ NQobj_add(X(last.args[2]), X(last.args[1])).val.data # X(last.res).data

\* C8: for every tensor x and every reordering p of its names, a flat list
\* when the two name lists of x are the same and a pair of lists otherwise,
\* x.permute(p) returns, and permuting what it returns to the name order of
\* x gives the names, dimension vectors and content of x.
C8_PermuteRoundTrip ==
    LET x == X(last.args[1])
        p == last.args[2]
    IN  (/\ last.op = "permute"
         /\ IF x.names[1] = x.names[2]
            THEN p.form = "flat" /\ Range(p.o) = Range(x.names[1])
            ELSE p.form = "pair")
        => /\ last.status = "ok"
           /\ LET back == NQobj_permute(X(last.res),
                              IF x.names[1] = x.names[2] THEN FlatOrder(x.names[1])
                              ELSE PairOrder(x.names[1], x.names[2]))
              IN  /\ back.ok
                  /\ back.val.names = x.names
                  /\ back.val.dims = x.dims
                  /\ back.val.data = x.data

\* C9: for a tensor with the same row and column name list and a list S of
\* its names, ptrace(S, keep=False) hands the backend the positions that
\* ptrace(complement of S, keep=True) hands it (the same sequence when the
\* complement is listed in axis order) and returns the same names, dimension
\* vectors and content; the names of what any ptrace returns are the kept
\* names in the axis order of the receiver.
C9_PtraceComplement ==
    LET x == X(last.args[1])
        S == last.args[2]
        keep == last.args[3]
    IN  (last.op = "ptrace" /\ x.names[1] = x.names[2] /\ Range(S) \subseteq Range(x.names[1]))
        => /\ last.aux.ok
           /\ last.status = "ok" =>
                 /\ X(last.res).names[1] = Filter(x.names[1], {At(x.names[1], i) : i \in Range(last.aux.val)})
                 /\ X(last.res).names[2] = X(last.res).names[1]
           /\ ~keep =>
                 /\ Range(last.aux.val) = {IndexOf(x.names[1], n) : n \in Range(x.names[1]) \ Range(S)}
                 /\ \A c \in Perms(Range(x.names[1]) \ Range(S)) :
                       LET kept == PtraceSel(x, c, TRUE)
                           other == NQobj_ptrace(x, c, TRUE)
                       IN  /\ kept.ok
                           /\ Range(kept.val) = Range(last.aux.val)
                           /\ (c = Filter(x.names[1], Range(c))) => kept.val = last.aux.val
                           /\ other.ok <=> last.status = "ok"
                           /\ other.ok => /\ other.val.names = X(last.res).names
                                          /\ other.val.dims = X(last.res).dims
                                          /\ other.val.data = X(last.res).data

\* ptrace(S, keep=False) returned on a tensor with three modes, two of which
\* stay
C9_Witness ==
    /\ last.op = "ptrace" /\ last.status = "ok"
    /\ ~last.args[3]
    /\ X(last.args[1]).names[1] = X(last.args[1]).names[2]
    /\ Len(X(last.args[1]).names[1]) = 3
    /\ Len(last.args[2]) = 1
    /\ Len(X(last.res).names[1]) = 2
    /\ last.aux.val # <<0, 1>>

\* C10 as claimed: tensor of operands of one kind, two of which have a name
\* in common on a side, returns a tensor whose name lists are the operands'
\* name lists put one after the other.
C10_TensorAllowsSharedNames ==
    LET ops == [k \in 1..Len(last.args) |-> X(last.args[k])]
    IN  (/\ last.op = "tensor"
         /\ \A k \in 1..Len(ops) : ops[k].kind = ops[1].kind
         /\ \E j, k \in 1..Len(ops), side \in 1..2 :
               j # k /\ Range(ops[j].names[side]) \cap Range(ops[k].names[side]) # {})
        => /\ last.status = "ok"
           /\ X(last.res).names[1] = ops[1].names[1] \o ops[2].names[1]
           /\ X(last.res).names[2] = ops[1].names[2] \o ops[2].names[2]

\* C10 as amended: tensor has no check of its own, the constructor it ends
\* with has one.  With operands of one kind, tensor raises ValueError and
\* returns nothing when two operands have a name in common on a side, and
\* otherwise returns a tensor whose name lists are the operands' name lists
\* put one after the other.
C10_TensorRejectsSharedNames ==
    LET ops == [k \in 1..Len(last.args) |-> X(last.args[k])]
        cat(side) == IF Len(ops) = 1 THEN ops[1].names[side] ELSE ops[1].names[side] \o ops[2].names[side]
    IN  (/\ last.op = "tensor"
         /\ \A k \in 1..Len(ops) : ops[k].kind = ops[1].kind)
        => IF \E j, k \in 1..Len(ops), side \in 1..2 :
                 j # k /\ Range(ops[j].names[side]) \cap Range(ops[k].names[side]) # {}
           THEN last.status = "ValueError" /\ last.res = 0
           ELSE /\ last.status = "ok"
                /\ X(last.res).names = <<cat(1), cat(2)>>

\* tensor of two different tensors of one kind that have a name in common
C10_Witness ==
    /\ last.op = "tensor" /\ Len(last.args) = 2
    /\ last.args[1] # last.args[2]
    /\ X(last.args[1]).kind = X(last.args[2]).kind
    /\ Range(X(last.args[1]).names[1]) \cap Range(X(last.args[2]).names[1]) # {}
    /\ last.status = "ValueError"

\* every name x lacks from the required names is lacking on one side only and
\* is on the other side of x, and there is such a name
LacksOnOneSideOnly(x, required) ==
    LET missing == _find_missing_names(x.names, required)
    IN  /\ missing[1] \cup missing[2] # {}
        /\ missing[1] \cap missing[2] = {}
        /\ missing[1] \subseteq Range(x.names[2])
        /\ missing[2] \subseteq Range(x.names[1])

\* the expansion of x returned a tensor with the required names on each side
ExpandsTo(x, required, dict) ==
    LET e == _adding_missing_modes(x, dict, required, x.kind)
    IN  /\ e.ok
        /\ Range(e.val.names[1]) = Range(required[1])
        /\ Range(e.val.names[2]) = Range(required[2])
        /\ NoDup(e.val.names[1]) /\ NoDup(e.val.names[2])

\* C11: in a + b and a * b, a state-kind operand that lacks required names
\* on one side only, each of them on its other side, is expanded without an
\* error to a tensor whose row and column name sets are the required ones,
\* with no name twice on a side.
C11_OneSidedFillersExpand ==
    LET a == X(last.args[1])
        b == X(last.args[2])
        sum == _add_find_required_names(a, b)
        prod == _mul_find_required_names(a, b)
    IN  /\ (last.op = "add" /\ QType(a) = QType(b) /\ a.kind = b.kind) =>
              /\ (a.kind = "state" /\ LacksOnOneSideOnly(a, sum)) =>
                    ExpandsTo(a, sum, _find_missing_dict(_find_missing_names(a.names, sum), b, FALSE))
              /\ (b.kind = "state" /\ LacksOnOneSideOnly(b, sum)) =>
                    ExpandsTo(b, sum, _find_missing_dict(_find_missing_names(b.names, sum), a, FALSE))
        /\ last.op = "mul" =>
              /\ (a.kind = "state" /\ LacksOnOneSideOnly(a, prod[1])) =>
                    ExpandsTo(a, prod[1], _find_missing_dict(_find_missing_names(a.names, prod[1]), b, TRUE))
              /\ (b.kind = "state" /\ LacksOnOneSideOnly(b, prod[2])) =>
                    ExpandsTo(b, prod[2], _find_missing_dict(_find_missing_names(b.names, prod[2]), a, TRUE))

\* C12: when both operands of left * right are expanded and permuted without
\* an error, the column names of the left operand and the row names of the
\* right operand handed to the backend product both start with the overlap
\* (last.aux), an overlap name filled in on one operand has there, on the
\* contracted side, the dimension it has on the contracted side of the other
\* operand, and every name after the overlap has dimension 1 on the
\* contracted side.
C12_ContractedAxesAligned ==
    LET so == MulOperands(X(last.args[1]), X(last.args[2]))
        overlap == last.aux
    IN  (last.op = "mul" /\ so.ok) =>
           LET left == so.val[1]
               right == so.val[2]
               n == Len(overlap)
           IN  /\ Len(left.names[2]) >= n /\ SubSeq(left.names[2], 1, n) = overlap
               /\ Len(right.names[1]) >= n /\ SubSeq(right.names[1], 1, n) = overlap
               /\ \A k \in 1..n :
                     /\ overlap[k] \notin Range(X(last.args[1]).names[2]) =>
                           left.dims[2][k] = _dim_of_name(X(last.args[2]), overlap[k])[1]
                     /\ overlap[k] \notin Range(X(last.args[2]).names[1]) =>
                           right.dims[1][k] = _dim_of_name(X(last.args[1]), overlap[k])[2]
               /\ \A k \in (n + 1)..Len(left.names[2]) : left.dims[2][k] = 1
               /\ \A k \in (n + 1)..Len(right.names[1]) : right.dims[1][k] = 1

\* a product in which a name is filled in on a state-kind left operand from a
\* right operand that is not square on that name, and a column name of the
\* left operand is outside the overlap
C12_Witness ==
    /\ last.op = "mul"
    /\ MulOperands(X(last.args[1]), X(last.args[2])).ok
    /\ X(last.args[1]).kind = "state"
    /\ \E k \in 1..Len(last.aux) :
          /\ last.aux[k] \notin Range(X(last.args[1]).names[2])
          /\ _dim_of_name(X(last.args[2]), last.aux[k])[1] # _dim_of_name(X(last.args[2]), last.aux[k])[2]
    /\ Len(MulOperands(X(last.args[1]), X(last.args[2])).val[1].names[2]) > Len(last.aux)

====
